---------------------------- MODULE Spec2Model ----------------------------
(***************************************************************************)
(* A model of the desim discrete-event simulation kernel (src/src/lib.rs): *)
(* the Simulation struct, its public operations create_process,            *)
(* create_resource, schedule_event, step and run, and the resource         *)
(* arbitration done inside step.                                           *)
(*                                                                         *)
(* Times (f64 in the source) are modelled as integers; NaN is not          *)
(* modelled.  A process is an arbitrary generator: each resume either      *)
(* completes or yields any payload; or it is a scripted generator with a   *)
(* straight-line body as in the tests.  The order in which the std         *)
(* BinaryHeap pops events of equal time is left open: pop takes any event  *)
(* of least time.  A panic leaves the simulation in the state it had when  *)
(* the panic was raised and ends the behaviour.                            *)
(***************************************************************************)
EXTENDS Integers, Sequences, FiniteSets, Bags, TLC

(* ------------------------------ bounds -------------------------------- *)
MaxProcs == 2
MaxRes == 1
MaxCapacity == 1
MaxDelta == 1
MaxPending == 2
MaxSteps == 3
MaxHold == 7
MaxTick == 3
MaxSeed == 2
MaxTurns == 8

ProcIds == 0 .. (MaxProcs - 1)
ResIds == 0 .. (MaxRes - 1)
Capacities == 0 .. MaxCapacity
Deltas == 0 .. MaxDelta
SeedTimes == 0 .. MaxDelta
EndTimes == 1 .. (MaxDelta + 1)
StepCounts == 1 .. (MaxSteps - 1)

(* ------------------------------ Effect -------------------------------- *)
TimeOut(t) == [kind |-> "TimeOut", time |-> t, id |-> 0]
EventEffect(t, p) == [kind |-> "Event", time |-> t, id |-> p]
Request(r) == [kind |-> "Request", time |-> 0, id |-> r]
Release(r) == [kind |-> "Release", time |-> 0, id |-> r]
Wait == [kind |-> "Wait", time |-> 0, id |-> 0]
Trace == [kind |-> "Trace", time |-> 0, id |-> 0]

Effects ==
    {TimeOut(t) : t \in Deltas}
    \cup {EventEffect(t, p) : t \in Deltas, p \in ProcIds}
    \cup {Request(r) : r \in ResIds}
    \cup {Release(r) : r \in ResIds}
    \cup {Wait, Trace}

(* A payload T: SimState; get_effect and should_log are its projections.   *)
(* Every effect is yielded in a payload that asks to be logged; Trace also *)
(* in one that does not.                                                   *)
QuietEffects == {Trace}
Payloads == [effect : Effects, log : {TRUE}] \cup [effect : QuietEffects, log : {FALSE}]
get_effect(y) == y.effect
should_log(y) == y.log

(* The state handed to schedule_event by the caller, as in the tests.      *)
SeedStates == {[effect |-> TimeOut(0), log |-> TRUE]}

Event(t, p, s) == [time |-> t, process |-> p, state |-> s]

(* EndCondition                                                            *)
Time(t) == [kind |-> "Time", n |-> t]
NoEvents == [kind |-> "NoEvents", n |-> 0]
NSteps(n) == [kind |-> "NSteps", n |-> n]
EndConditions ==
    {Time(t) : t \in EndTimes} \cup {NoEvents} \cup {NSteps(n) : n \in StepCounts}
Idle == [kind |-> "Idle", n |-> 0]

VARIABLES
    time,               \* Simulation.time
    steps,              \* Simulation.steps
    processes,          \* Simulation.processes: "Some" or "None" per slot
    generators,         \* the generator boxed in each slot: its body and position
    future_events,      \* Simulation.future_events: a bag of events
    processed_events,   \* Simulation.processed_events: the trace log
    resources,          \* Simulation.resources
    panicked,           \* "" or the panic that ended the simulation
    until,              \* the EndCondition of the run in progress, or Idle
    last,               \* history: what the last step or run did, if it was the last call
    created,            \* history: the n given to each create_resource
    holds,              \* history: units of r granted to p and not released by p
    strays,             \* history: completed Release(r) by a process holding no r
    fifo,               \* history: tickets of the queued requests, per resource
    seeded_past,        \* history: schedule_event was called with a time < time()
    granted,            \* history: grants of r, immediate or by hand-off
    released,           \* history: completed Release(r) effects
    rerun               \* history: run(NoEvents) was called on what run(NoEvents) returned

vars == <<time, steps, processes, generators, future_events, processed_events,
          resources, panicked, until, last, created, holds, strays, fifo,
          seeded_past, granted, released, rerun>>

sim == <<time, steps, processes, generators, future_events, processed_events,
         resources>>
history == <<created, holds, strays, fifo, seeded_past, granted, released>>

(* last: whether the last call was a step ("step"), the return of run     *)
(* ("return", with the kind of its EndCondition as outcome) or another     *)
(* call ("none"); for a step its outcome ("empty", "panic", "complete", "yield"), the event it  *)
(* popped, whether the generator was resumed and the payload it yielded.   *)
NoEvent == [time |-> 0, process |-> 0, state |-> [effect |-> Wait, log |-> FALSE]]
NoPayload == [effect |-> [kind |-> "none", time |-> 0, id |-> 0], log |-> FALSE]
LastStep(outcome, event, resumed, y) ==
    [op |-> "step", outcome |-> outcome, event |-> event, resumed |-> resumed, y |-> y]
LastReturn(c) ==
    [op |-> "return", outcome |-> c.kind, event |-> NoEvent, resumed |-> FALSE,
     y |-> NoPayload]
NoStep == [op |-> "none", outcome |-> "", event |-> NoEvent, resumed |-> FALSE,
           y |-> NoPayload]

(* ----------------------------- generators ---------------------------- *)
(* The generator given to create_process.  An arbitrary generator may, on  *)
(* each resume, return or yield any payload.  A scripted generator is a    *)
(* straight-line body as in the tests: it yields the payloads of its       *)
(* program one per resume and then returns; pc is the yield it is          *)
(* suspended before.                                                       *)
AnyGenerator == [scripted |-> FALSE, program |-> <<>>, pc |-> 1]
Script(program) == [scripted |-> TRUE, program |-> program, pc |-> 1]
(* GeneratorState::Yielded(y): the payloads a resume of g may yield.       *)
Yields(g) ==
    IF ~g.scripted THEN Payloads
    ELSE IF g.pc <= Len(g.program) THEN {g.program[g.pc]} ELSE {}
(* GeneratorState::Complete: whether a resume of g may return.             *)
Completes(g) == ~g.scripted \/ g.pc > Len(g.program)
(* g after a resume that yielded.                                          *)
resume(g) == IF g.scripted THEN [g EXCEPT !.pc = @ + 1] ELSE g

(* ----------------------- BinaryHeap<Reverse<Event>> ------------------- *)
heap_push(heap, e) == heap (+) SetToBag({e})
heap_remove(heap, e) == heap (-) SetToBag({e})
heap_len(heap) == BagCardinality(heap)
(* Ord for Event compares the times only; pop returns an event of least    *)
(* time.                                                                   *)
event_le(a, b) == a.time <= b.time
heap_peeks(heap) ==
    {e \in BagToSet(heap) : \A f \in BagToSet(heap) : event_le(e, f)}

(* ----------------------------- VecDeque ------------------------------- *)
RemoveAt(q, i) == [j \in 1 .. (Len(q) - 1) |-> IF j < i THEN q[j] ELSE q[j + 1]]
(* A queue served from the wrong end: pop_back for pop_front.               *)
back_index(q) == Len(q)
front_index(q) == 1
push_back(q, x) == Append(q, x)

(* ------------------------------ new() --------------------------------- *)
Init ==
    /\ time = 0
    /\ steps = 0
    /\ processes = <<>>
    /\ generators = <<>>
    /\ future_events = EmptyBag
    /\ processed_events = <<>>
    /\ resources = <<>>
    /\ panicked = ""
    /\ until = Idle
    /\ last = NoStep
    /\ created = <<>>
    /\ holds = [p \in ProcIds |-> [r \in ResIds |-> 0]]
    /\ strays = [r \in ResIds |-> 0]
    /\ fifo = [r \in ResIds |-> [tickets |-> <<>>, issued |-> 0, served |-> <<>>]]
    /\ seeded_past = FALSE
    /\ granted = [r \in ResIds |-> 0]
    /\ released = [r \in ResIds |-> 0]
    /\ rerun = FALSE

(* The owner may call a method when no panic has unwound the simulation    *)
(* and run, which takes the simulation by value, is not in progress.  The  *)
(* model follows the simulation up to its MaxSteps-th step: the calls made *)
(* after that step are not modelled.                                       *)
Callable == panicked = "" /\ until = Idle /\ steps < MaxSteps

create_process ==
    /\ Callable
    /\ Len(processes) < MaxProcs
    /\ processes' = Append(processes, "Some")
    /\ generators' = Append(generators, AnyGenerator)
    /\ last' = NoStep
    /\ rerun' = FALSE
    /\ UNCHANGED <<time, steps, future_events, processed_events, resources,
                   panicked, until, history>>

new_resource(n) == [allocated |-> n, available |-> n, queue |-> <<>>]

create_resource ==
    /\ Callable
    /\ Len(resources) < MaxRes
    /\ \E n \in Capacities :
        /\ resources' = Append(resources, new_resource(n))
        /\ created' = Append(created, n)
    /\ last' = NoStep
    /\ rerun' = FALSE
    /\ UNCHANGED <<time, steps, processes, generators, future_events,
                   processed_events, panicked, until, holds, strays, fifo,
                   seeded_past, granted, released>>

schedule_event ==
    /\ Callable
    /\ heap_len(future_events) < MaxPending
    /\ \E t \in SeedTimes, p \in ProcIds, s \in SeedStates :
        /\ future_events' = heap_push(future_events, Event(t, p, s))
        /\ seeded_past' = (seeded_past \/ t < time)
        /\ last' = NoStep
    /\ rerun' = FALSE
    /\ UNCHANGED <<time, steps, processes, generators, processed_events,
                   resources, panicked, until, created, holds, strays, fifo,
                   granted, released>>

(* A log that does not ask should_log.                                     *)
log_processed_event_always(log, event, sim_state) ==
    Append(log, <<event, sim_state>>)

(* log_processed_event                                                     *)
log_processed_event(log, event, sim_state) ==
    IF should_log(sim_state) THEN Append(log, <<event, sim_state>>) ELSE log

(* -------------------- step: the effect interpreter -------------------- *)
(* Each operator gives the priority queue and the resource table after     *)
(* the effect, and the panic it raised, if any.                            *)
Done(heap, res) == [heap |-> heap, resources |-> res, panic |-> ""]
Crash(heap, res, why) == [heap |-> heap, resources |-> res, panic |-> why]

PanicIndex == "index out of bounds"
PanicCompleted == "ERROR. Tried to resume a completed process."
PanicOverRelease == "assertion failed: res.available < res.allocated"

(* A timeout taken as an absolute time: t for self.time + t.               *)
effect_timeout_absolute(event, y, now, heap, res) ==
    Done(heap_push(heap, Event(get_effect(y).time, event.process, y)), res)

effect_timeout(event, y, now, heap, res) ==
    Done(heap_push(heap, Event(now + get_effect(y).time, event.process, y)), res)

(* An Event effect that also reschedules the process that yielded it.      *)
effect_event_reschedules(event, y, now, heap, res) ==
    Done(heap_push(heap_push(heap, Event(get_effect(y).time + now,
                                         get_effect(y).id, y)),
                   Event(now, event.process, y)), res)

effect_event(event, y, now, heap, res) ==
    Done(heap_push(heap, Event(get_effect(y).time + now, get_effect(y).id, y)), res)

(* A grant that forgets res.available -= 1.                                *)
effect_request_no_decrement(event, y, now, heap, res) ==
    LET r == get_effect(y).id IN
    IF r >= Len(res) THEN Crash(heap, res, PanicIndex)
    ELSE IF res[r + 1].available = 0
         THEN Done(heap, [res EXCEPT ![r + 1].queue = push_back(@, event)])
         ELSE Done(heap_push(heap, Event(now, event.process, y)), res)

(* A grant that does not look at res.available.                            *)
effect_request_unchecked(event, y, now, heap, res) ==
    LET r == get_effect(y).id IN
    IF r >= Len(res) THEN Crash(heap, res, PanicIndex)
    ELSE Done(heap_push(heap, Event(now, event.process, y)),
              [res EXCEPT ![r + 1].available = @ - 1])

effect_request(event, y, now, heap, res) ==
    LET r == get_effect(y).id IN
    IF r >= Len(res) THEN Crash(heap, res, PanicIndex)
    ELSE IF res[r + 1].available = 0
         THEN Done(heap, [res EXCEPT ![r + 1].queue = push_back(@, event)])
         ELSE Done(heap_push(heap, Event(now, event.process, y)),
                   [res EXCEPT ![r + 1].available = @ - 1])

(* A release without the assertion on over-release.                       *)
effect_release_no_assert(event, y, now, heap, res) ==
    LET r == get_effect(y).id IN
    IF r >= Len(res) THEN Crash(heap, res, PanicIndex)
    ELSE LET q == res[r + 1].queue IN
         IF Len(q) > 0
         THEN LET i == front_index(q)
                  request_event == [q[i] EXCEPT !.time = now]
              IN  Done(heap_push(heap_push(heap, request_event),
                                 Event(now, event.process, y)),
                       [res EXCEPT ![r + 1].queue = RemoveAt(q, i)])
         ELSE Done(heap_push(heap, Event(now, event.process, y)),
                   [res EXCEPT ![r + 1].available = @ + 1])

(* A hand-off that forgets request_event.time = self.time.                 *)
effect_release_stale_time(event, y, now, heap, res) ==
    LET r == get_effect(y).id IN
    IF r >= Len(res) THEN Crash(heap, res, PanicIndex)
    ELSE LET q == res[r + 1].queue IN
         IF Len(q) > 0
         THEN LET i == front_index(q)
                  request_event == q[i]
              IN  Done(heap_push(heap_push(heap, request_event),
                                 Event(now, event.process, y)),
                       [res EXCEPT ![r + 1].queue = RemoveAt(q, i)])
         ELSE IF res[r + 1].available < res[r + 1].allocated
              THEN Done(heap_push(heap, Event(now, event.process, y)),
                        [res EXCEPT ![r + 1].available = @ + 1])
              ELSE Crash(heap, res, PanicOverRelease)

(* A hand-off that also frees the unit it hands over.                      *)
effect_release_handoff_frees(event, y, now, heap, res) ==
    LET r == get_effect(y).id IN
    IF r >= Len(res) THEN Crash(heap, res, PanicIndex)
    ELSE LET q == res[r + 1].queue IN
         IF Len(q) > 0
         THEN LET i == front_index(q)
                  request_event == [q[i] EXCEPT !.time = now]
              IN  Done(heap_push(heap_push(heap, request_event),
                                 Event(now, event.process, y)),
                       [res EXCEPT ![r + 1].queue = RemoveAt(q, i),
                                   ![r + 1].available = @ + 1])
         ELSE IF res[r + 1].available < res[r + 1].allocated
              THEN Done(heap_push(heap, Event(now, event.process, y)),
                        [res EXCEPT ![r + 1].available = @ + 1])
              ELSE Crash(heap, res, PanicOverRelease)

(* A hand-off that pops the head waiter and forgets to enqueue it.         *)
effect_release_drops_waiter(event, y, now, heap, res) ==
    LET r == get_effect(y).id IN
    IF r >= Len(res) THEN Crash(heap, res, PanicIndex)
    ELSE LET q == res[r + 1].queue IN
         IF Len(q) > 0
         THEN LET i == front_index(q)
              IN  Done(heap_push(heap, Event(now, event.process, y)),
                       [res EXCEPT ![r + 1].queue = RemoveAt(q, i)])
         ELSE IF res[r + 1].available < res[r + 1].allocated
              THEN Done(heap_push(heap, Event(now, event.process, y)),
                        [res EXCEPT ![r + 1].available = @ + 1])
              ELSE Crash(heap, res, PanicOverRelease)

(* An assertion that is off by one: <= for <.                              *)
effect_release_assert_le(event, y, now, heap, res) ==
    LET r == get_effect(y).id IN
    IF r >= Len(res) THEN Crash(heap, res, PanicIndex)
    ELSE LET q == res[r + 1].queue IN
         IF Len(q) > 0
         THEN LET i == front_index(q)
                  request_event == [q[i] EXCEPT !.time = now]
              IN  Done(heap_push(heap_push(heap, request_event),
                                 Event(now, event.process, y)),
                       [res EXCEPT ![r + 1].queue = RemoveAt(q, i)])
         ELSE IF res[r + 1].available <= res[r + 1].allocated
              THEN Done(heap_push(heap, Event(now, event.process, y)),
                        [res EXCEPT ![r + 1].available = @ + 1])
              ELSE Crash(heap, res, PanicOverRelease)

effect_release(event, y, now, heap, res) ==
    LET r == get_effect(y).id IN
    IF r >= Len(res) THEN Crash(heap, res, PanicIndex)
    ELSE LET q == res[r + 1].queue IN
         IF Len(q) > 0
         THEN LET i == front_index(q)
                  request_event == [q[i] EXCEPT !.time = now]
              IN  Done(heap_push(heap_push(heap, request_event),
                                 Event(now, event.process, y)),
                       [res EXCEPT ![r + 1].queue = RemoveAt(q, i)])
         ELSE IF res[r + 1].available < res[r + 1].allocated
              THEN Done(heap_push(heap, Event(now, event.process, y)),
                        [res EXCEPT ![r + 1].available = @ + 1])
              ELSE Crash(heap, res, PanicOverRelease)

(* A Wait that reschedules the process at the current time.                *)
effect_wait_reschedules(event, y, now, heap, res) ==
    Done(heap_push(heap, Event(now, event.process, y)), res)

effect_wait(event, y, now, heap, res) == Done(heap, res)

effect_trace(event, y, now, heap, res) ==
    Done(heap_push(heap, Event(now, event.process, y)), res)

interpret(event, y, now, heap, res) ==
    CASE get_effect(y).kind = "TimeOut" -> effect_timeout(event, y, now, heap, res)
      [] get_effect(y).kind = "Event" -> effect_event(event, y, now, heap, res)
      [] get_effect(y).kind = "Request" -> effect_request(event, y, now, heap, res)
      [] get_effect(y).kind = "Release" -> effect_release(event, y, now, heap, res)
      [] get_effect(y).kind = "Wait" -> effect_wait(event, y, now, heap, res)
      [] get_effect(y).kind = "Trace" -> effect_trace(event, y, now, heap, res)

(* ------------------------- history of a step -------------------------- *)
(* What the effect did to the units of resource r, read off the state      *)
(* before the step: a Request is granted at once when a unit is free and   *)
(* takes a ticket otherwise; a Release hands the unit to the waiter the    *)
(* queue gives up, or frees it.  The ticket served is the one at the       *)
(* place the Release takes its waiter from.                                *)
IsRequest(y) == get_effect(y).kind = "Request" /\ get_effect(y).id < Len(resources)
IsRelease(y) == get_effect(y).kind = "Release" /\ get_effect(y).id < Len(resources)

holds_after(event, y, out) ==
    LET r == get_effect(y).id
        p == event.process
    IN  IF out.panic # "" THEN holds
        ELSE IF IsRequest(y)
        THEN IF resources[r + 1].available = 0 THEN holds
             ELSE [holds EXCEPT ![p][r] = @ + 1]
        ELSE IF IsRelease(y)
        THEN LET q == resources[r + 1].queue
                 given == IF holds[p][r] > 0
                          THEN [holds EXCEPT ![p][r] = @ - 1] ELSE holds
             IN  IF Len(q) > 0
                 THEN [given EXCEPT ![q[front_index(q)].process][r] = @ + 1]
                 ELSE given
        ELSE holds

strays_after(event, y, out) ==
    IF out.panic = "" /\ IsRelease(y) /\ holds[event.process][get_effect(y).id] = 0
    THEN [strays EXCEPT ![get_effect(y).id] = @ + 1]
    ELSE strays

fifo_after(event, y, out) ==
    LET r == get_effect(y).id IN
    IF out.panic # "" THEN fifo
    ELSE IF IsRequest(y) /\ resources[r + 1].available = 0
    THEN [fifo EXCEPT ![r].issued = @ + 1,
                      ![r].tickets = push_back(@, fifo[r].issued + 1)]
    ELSE IF IsRelease(y) /\ Len(resources[r + 1].queue) > 0
    THEN LET i == front_index(resources[r + 1].queue) IN
         [fifo EXCEPT ![r].tickets = RemoveAt(@, i),
                      ![r].served = Append(@, fifo[r].tickets[i])]
    ELSE fifo

(* A Request is granted at once when a unit is free; a Release that finds  *)
(* a waiter grants the unit to it.                                         *)
granted_after(event, y, out) ==
    LET r == get_effect(y).id IN
    IF out.panic # "" THEN granted
    ELSE IF IsRequest(y) /\ resources[r + 1].available > 0
    THEN [granted EXCEPT ![r] = @ + 1]
    ELSE IF IsRelease(y) /\ Len(resources[r + 1].queue) > 0
    THEN [granted EXCEPT ![r] = @ + 1]
    ELSE granted

released_after(event, y, out) ==
    IF out.panic = "" /\ IsRelease(y)
    THEN [released EXCEPT ![get_effect(y).id] = @ + 1]
    ELSE released

(* ------------------------------- step --------------------------------- *)
(* An empty-queue step that wakes the head waiter of a resource.           *)
step_none_wakes ==
    /\ future_events = EmptyBag
    /\ steps' = steps + 1
    /\ last' = LastStep("empty", NoEvent, FALSE, NoPayload)
    /\ IF \E i \in 1 .. Len(resources) : Len(resources[i].queue) > 0
       THEN \E i \in 1 .. Len(resources) :
                /\ Len(resources[i].queue) > 0
                /\ future_events' = heap_push(future_events, resources[i].queue[1])
                /\ resources' = [resources EXCEPT ![i].queue = Tail(@)]
       ELSE UNCHANGED <<future_events, resources>>
    /\ UNCHANGED <<time, processes, generators, processed_events, panicked,
                   until, history>>

(* None arm: the queue is empty.                                           *)
step_none ==
    /\ future_events = EmptyBag
    /\ steps' = steps + 1
    /\ last' = LastStep("empty", NoEvent, FALSE, NoPayload)
    /\ UNCHANGED <<time, processes, generators, future_events, processed_events,
                   resources, panicked, until, history>>

(* A resume that does not look whether the slot holds a generator.         *)
resume_panic_index_only(event) ==
    IF event.process >= Len(processes) THEN PanicIndex ELSE ""

(* processes[event.process] is out of the table, or holds None.            *)
resume_panic(event) ==
    IF event.process >= Len(processes) THEN PanicIndex
    ELSE IF processes[event.process + 1] = "None" THEN PanicCompleted
    ELSE ""

step_panic ==
    \E event \in heap_peeks(future_events) :
        /\ resume_panic(event) # ""
        /\ steps' = steps + 1
        /\ future_events' = heap_remove(future_events, event)
        /\ time' = event.time
        /\ panicked' = resume_panic(event)
        /\ last' = LastStep("panic", event, FALSE, NoPayload)
        /\ UNCHANGED <<processes, generators, processed_events, resources, until,
                       history>>

(* The generator returned.                                                 *)
step_complete ==
    \E event \in heap_peeks(future_events) :
        /\ resume_panic(event) = ""
        /\ Completes(generators[event.process + 1])
        /\ steps' = steps + 1
        /\ future_events' = heap_remove(future_events, event)
        /\ time' = event.time
        /\ processes' = [processes EXCEPT ![event.process + 1] = "None"]
        /\ last' = LastStep("complete", event, TRUE, NoPayload)
        /\ UNCHANGED <<generators, processed_events, resources, panicked, until,
                       history>>

(* The generator yielded y.                                                *)
step_yield ==
    \E event \in heap_peeks(future_events) :
      /\ resume_panic(event) = ""
      /\ \E y \in Yields(generators[event.process + 1]) :
        LET now == event.time
            out == interpret(event, y, now, heap_remove(future_events, event),
                             resources)
        IN  /\ steps' = steps + 1
            /\ generators' = [generators EXCEPT ![event.process + 1] = resume(@)]
            /\ time' = now
            /\ processed_events' = log_processed_event(processed_events, event, y)
            /\ future_events' = out.heap
            /\ resources' = out.resources
            /\ panicked' = out.panic
            /\ holds' = holds_after(event, y, out)
            /\ strays' = strays_after(event, y, out)
            /\ fifo' = fifo_after(event, y, out)
            /\ granted' = granted_after(event, y, out)
            /\ released' = released_after(event, y, out)
            /\ last' = LastStep(IF out.panic = "" THEN "yield" ELSE "panic",
                                event, TRUE, y)
            /\ UNCHANGED <<processes, until, created, seeded_past>>

step_body ==
    \/ step_none
    \/ step_panic
    \/ step_complete
    \/ step_yield

step ==
    /\ Callable
    /\ step_body
    /\ rerun' = FALSE

(* -------------------------------- run --------------------------------- *)
(* NSteps tested with >= for ==.                                           *)
check_ending_condition_at_least(ending_condition) ==
    CASE ending_condition.kind = "Time" -> time >= ending_condition.n
      [] ending_condition.kind = "NoEvents" -> heap_len(future_events) = 0
      [] ending_condition.kind = "NSteps" -> steps >= ending_condition.n

(* Time tested with > for >=.                                              *)
check_ending_condition_time_after(ending_condition) ==
    CASE ending_condition.kind = "Time" -> time > ending_condition.n
      [] ending_condition.kind = "NoEvents" -> heap_len(future_events) = 0
      [] ending_condition.kind = "NSteps" -> steps = ending_condition.n

(* A loop that also ends when no event is left.                            *)
check_ending_condition_or_empty(ending_condition) ==
    CASE ending_condition.kind = "Time" ->
            time >= ending_condition.n \/ heap_len(future_events) = 0
      [] ending_condition.kind = "NoEvents" -> heap_len(future_events) = 0
      [] ending_condition.kind = "NSteps" -> steps = ending_condition.n

check_ending_condition(ending_condition) ==
    CASE ending_condition.kind = "Time" -> time >= ending_condition.n
      [] ending_condition.kind = "NoEvents" -> heap_len(future_events) = 0
      [] ending_condition.kind = "NSteps" -> steps = ending_condition.n

(* The owner calls run(until).                                             *)
run ==
    /\ Callable
    /\ \E c \in EndConditions :
        /\ until' = c
        /\ last' = NoStep
        /\ rerun' = (c = NoEvents /\ last = LastReturn(NoEvents))
    /\ UNCHANGED <<sim, panicked, history>>

(* One turn of the while loop whose condition is false: self.step().       *)
run_step ==
    /\ panicked = ""
    /\ until # Idle
    /\ ~check_ending_condition(until)
    /\ steps < MaxSteps
    /\ step_body
    /\ UNCHANGED rerun

(* A loop that tests after the step (loop { step; if cond { break } }):    *)
(* the turn that returns has stepped, here on the empty queue.             *)
run_return_after_step ==
    /\ panicked = ""
    /\ until # Idle
    /\ check_ending_condition(until)
    /\ until' = Idle
    /\ last' = LastReturn(until)
    /\ steps' = steps + 1
    /\ UNCHANGED <<time, processes, generators, future_events, processed_events,
                   resources, panicked, history, rerun>>

(* The loop's condition is true: run returns the simulation.               *)
run_return ==
    /\ panicked = ""
    /\ until # Idle
    /\ check_ending_condition(until)
    /\ until' = Idle
    /\ last' = LastReturn(until)
    /\ UNCHANGED <<sim, panicked, history, rerun>>

(* The owner drives the simulation with create_process, create_resource,   *)
(* schedule_event and step.                                                *)
Next ==
    \/ create_process
    \/ create_resource
    \/ schedule_event
    \/ step

Spec == Init /\ [][Next]_vars

(* The owner may also hand the simulation to run.                          *)
NextRun ==
    \/ create_process
    \/ create_resource
    \/ schedule_event
    \/ step
    \/ run
    \/ run_step
    \/ run_return

SpecRun == Init /\ [][NextRun]_vars

(* ------------------------- scripted simulations ------------------------ *)
(* Simulations set up as in the tests: the owner creates the processes,    *)
(* each with a straight-line body, seeds each at most once and hands the   *)
(* simulation to run.  The payload type is Effect itself, whose            *)
(* should_log() is true.                                                   *)
HoldTimes == 0 .. MaxHold
TickTimes == 0 .. MaxTick
ScriptSeedTimes == 0 .. MaxSeed

yield(e) == [effect |-> e, log |-> TRUE]

(* tests::resource: yield Request(r); yield TimeOut(d); yield Release(r).  *)
Holder(r, d) == <<yield(Request(r)), yield(TimeOut(d)), yield(Release(r))>>
(* tests::it_works, three turns of its loop: yield TimeOut(a) for a = d1,  *)
(* d2, d3.                                                                 *)
Timer(d1, d2, d3) == <<yield(TimeOut(d1)), yield(TimeOut(d2)), yield(TimeOut(d3))>>
(* yield Event{time: d, process: target}; yield Wait.                      *)
Scheduler(d, target) == <<yield(EventEffect(d, target)), yield(Wait)>>
(* What the process a Scheduler targets may run.                           *)
Targets == {<<>>, <<yield(Wait)>>} \cup {Scheduler(d, 0) : d \in TickTimes}

(* The bodies of the processes of one simulation, in creation order.       *)
Casts ==
    {<<Holder(0, d1), Holder(0, d2)>> : d1 \in HoldTimes, d2 \in HoldTimes}
    \cup {<<Timer(d1, d2, d3)>> : d1 \in TickTimes, d2 \in TickTimes, d3 \in TickTimes}
    \cup {<<Scheduler(d, 1), q>> : d \in TickTimes, q \in Targets}

(* create_process with a scripted generator, before any event is seeded.   *)
create_process_script ==
    /\ Callable
    /\ steps = 0
    /\ future_events = EmptyBag
    /\ \E cast \in Casts :
        /\ Len(processes) < Len(cast)
        /\ \A i \in 1 .. Len(generators) : generators[i] = Script(cast[i])
        /\ generators' = Append(generators, Script(cast[Len(generators) + 1]))
    /\ processes' = Append(processes, "Some")
    /\ last' = NoStep
    /\ rerun' = FALSE
    /\ UNCHANGED <<time, steps, future_events, processed_events, resources,
                   panicked, until, history>>

(* schedule_event as the tests call it: before the first step, one event   *)
(* per process, in the order of the processes.                             *)
schedule_event_seed ==
    /\ Callable
    /\ steps = 0
    /\ \E t \in ScriptSeedTimes, p \in 0 .. (Len(processes) - 1), s \in SeedStates :
        /\ \A e \in BagToSet(future_events) : e.process < p
        /\ future_events' = heap_push(future_events, Event(t, p, s))
        /\ seeded_past' = (seeded_past \/ t < time)
    /\ last' = NoStep
    /\ rerun' = FALSE
    /\ UNCHANGED <<time, steps, processes, generators, processed_events,
                   resources, panicked, until, created, holds, strays, fifo,
                   granted, released>>

(* One turn of run's loop, followed up to the MaxTurns-th step.            *)
run_turn ==
    /\ panicked = ""
    /\ until # Idle
    /\ ~check_ending_condition(until)
    /\ steps < MaxTurns
    /\ step_body
    /\ UNCHANGED rerun

NextScript ==
    \/ create_resource
    \/ create_process_script
    \/ schedule_event_seed
    \/ run
    \/ run_turn
    \/ run_return

SpecScript == Init /\ [][NextScript]_vars

(* run is a sequential loop: a turn that can be taken is taken, and a run  *)
(* whose condition is met returns.                                         *)
SpecScriptFair == SpecScript /\ WF_vars(run_turn) /\ WF_vars(run_return)
(* ============================== claims ================================ *)
ResourceIds == 0 .. (Len(resources) - 1)
resource(r) == resources[r + 1]
(* The units of r held: granted to a process and not released by it.       *)
HeldUnits(r) ==
    LET sum[k \in -1 .. (MaxProcs - 1)] == IF k = -1 THEN 0 ELSE sum[k - 1] + holds[k][r]
    IN  sum[MaxProcs - 1]

Stepped == steps' = steps + 1
Dispatched == Stepped /\ last'.outcome # "empty"
YieldedKind(kind) ==
    Stepped /\ last'.resumed /\ last'.outcome \in {"yield", "panic"}
    /\ get_effect(last'.y).kind = kind
LastYielded(kind) ==
    last.op = "step" /\ last.resumed /\ last.outcome = "yield"
    /\ get_effect(last.y).kind = kind

(* C1: in every reachable state, every resource has                        *)
(* 0 <= available <= allocated, allocated is the n it was created with,    *)
(* and available > 0 implies that its waiters queue is empty.              *)
C1_ResourceBounds ==
    /\ Len(created) = Len(resources)
    /\ \A r \in ResourceIds :
        /\ 0 <= resource(r).available
        /\ resource(r).available <= resource(r).allocated
        /\ resource(r).allocated = created[r + 1]
        /\ (resource(r).available > 0 => Len(resource(r).queue) = 0)

(* C1 witness: a unit was taken and a Release has just given it back.      *)
C1_Witness ==
    /\ LastYielded("Release")
    /\ \E r \in ResourceIds :
        /\ get_effect(last.y).id = r
        /\ resource(r).allocated > 0
        /\ resource(r).available = resource(r).allocated

(* C2 as claimed: for every resource, available plus the units held by     *)
(* processes equals allocated.                                             *)
C2_Conservation ==
    \A r \in ResourceIds : resource(r).available + HeldUnits(r) = resource(r).allocated

(* C2 as amended: available plus the units held equals allocated plus the  *)
(* number of completed Release(r) yielded by a process that held no unit   *)
(* of r; so the claimed equation, and holders <= allocated, hold as long   *)
(* as no process has released r without holding it.                        *)
C2_ConservationUpToStrays ==
    \A r \in ResourceIds :
        /\ resource(r).available + HeldUnits(r) = resource(r).allocated + strays[r]
        /\ (strays[r] = 0 => HeldUnits(r) <= resource(r).allocated)

(* C2 witness: a holder released its unit to a waiter, no stray release.   *)
C2_Witness ==
    /\ LastYielded("Release")
    /\ \E r \in ResourceIds :
        /\ get_effect(last.y).id = r
        /\ strays[r] = 0
        /\ Len(fifo[r].served) > 0
        /\ HeldUnits(r) = resource(r).allocated
        /\ resource(r).allocated > 0

(* C3: the i-th request to enter a resource's waiters queue is the i-th    *)
(* one a Release takes out of it and grants, and the requests still        *)
(* waiting are the later ones, in the order they entered.                  *)
C3_Fifo ==
    \A r \in ResIds :
        /\ \A i \in 1 .. Len(fifo[r].served) : fifo[r].served[i] = i
        /\ \A i \in 1 .. Len(fifo[r].tickets) :
            fifo[r].tickets[i] = Len(fifo[r].served) + i
        /\ r \in ResourceIds => Len(fifo[r].tickets) = Len(resource(r).queue)

(* C3 witness: two requests were queued, and a Release has granted the     *)
(* first while the second still waits.                                     *)
C3_Witness ==
    /\ LastYielded("Release")
    /\ \E r \in ResourceIds :
        fifo[r].served = <<1>> /\ fifo[r].tickets = <<2>>

(* C4: as long as no schedule_event call has used a time below the current *)
(* time (every delta of the model is >= 0), a step that dispatches an      *)
(* event leaves time() at least what it was.                               *)
C4_TimeMonotone ==
    [][(Dispatched /\ ~seeded_past) => time' >= time]_vars

(* C4 witness: a request queued at time 0 was granted by a Release at time *)
(* 1 and dispatched after it, with no event seeded in the past.            *)
C4_Witness ==
    /\ ~seeded_past
    /\ time = 1
    /\ last.op = "step" /\ last.resumed
    /\ Len(processed_events) >= 2
    /\ processed_events[1][1].time = 0
    /\ get_effect(processed_events[1][2]).kind = "Request"
    /\ get_effect(processed_events[2][2]).kind = "Release"
    /\ processed_events[2][1].time = 1
    /\ steps = 3
    /\ last.event.process = processed_events[1][1].process
    /\ last.event.state = processed_events[1][1].state
    /\ \E r \in ResourceIds : fifo[r].served = <<1>>

(* C5 as claimed: a step that pops an event whose time is below the        *)
(* current time ends in a panic without resuming the process, and time()   *)
(* is never set to a smaller value.                                        *)
C5_PastEventIsFatal ==
    [][/\ (Dispatched /\ last'.event.time < time)
            => (panicked' # "" /\ ~last'.resumed)
       /\ time' >= time]_vars
Spinning ==
    /\ until.kind = "Time"
    /\ future_events = EmptyBag
    /\ time < until.n
    /\ panicked = ""

(* C7 as claimed: with no event pending, run(NoEvents) returns at once and *)
(* run(Time(T)) with T above the current time returns as well: it is never *)
(* left with an empty queue and time < T.                                  *)
C7_RunEndsWhenNothingPending ==
    ~Spinning

(* C7 as amended: with an empty priority queue, run(NoEvents) returns at   *)
(* once without a step, and run(Time(T)) with T above the current time     *)
(* does not return: each turn of its loop is an empty-queue step that adds *)
(* one to steps and leaves time, the queue and everything else as they     *)
(* are.                                                                    *)
C7_EmptyQueueRun ==
    [][/\ (until = NoEvents /\ future_events = EmptyBag /\ panicked = "")
            => (until' = Idle /\ UNCHANGED sim)
       /\ Spinning
            => /\ until' = until
               /\ steps' = steps + 1
               /\ last'.outcome = "empty"
               /\ UNCHANGED <<time, processes, future_events, processed_events,
                              resources, panicked>>]_vars

(* C7 witness: a process has yielded Wait in run(Time(T)), and the loop    *)
(* has then taken a step on the empty queue, time still below T.           *)
C7_Witness ==
    /\ Spinning
    /\ last.op = "step" /\ last.outcome = "empty"
    /\ Len(processed_events) > 0
    /\ get_effect(processed_events[Len(processed_events)][2]) = Wait
    /\ \E i \in 1 .. Len(processes) : processes[i] = "Some"

(* C8: a Release(r) yielded with r's waiters empty panics when             *)
(* available = allocated, leaving the resources as they were, and adds     *)
(* exactly one to available when available < allocated; available is      *)
(* never above allocated.                                                  *)
C8_ReleaseWithoutWaiters ==
    [][/\ \A r \in ResourceIds :
            (YieldedKind("Release") /\ get_effect(last'.y).id = r
                /\ Len(resource(r).queue) = 0)
            => IF resource(r).available = resource(r).allocated
               THEN /\ panicked' = PanicOverRelease
                    /\ last'.outcome = "panic"
                    /\ resources' = resources
               ELSE /\ panicked' = ""
                    /\ last'.outcome = "yield"
                    /\ resources' =
                         [resources EXCEPT ![r + 1].available = @ + 1]
       /\ \A i \in 1 .. Len(resources') :
            resources'[i].available <= resources'[i].allocated]_vars

(* C8 witness: an over-release has panicked on a resource of capacity > 0. *)
C8_Witness ==
    /\ panicked = PanicOverRelease
    /\ last.op = "step" /\ get_effect(last.y).kind = "Release"
    /\ \E r \in ResourceIds :
        /\ get_effect(last.y).id = r
        /\ resource(r).allocated > 0
        /\ resource(r).available = resource(r).allocated

(* C9: a completed process's slot is emptied and stays empty, the table    *)
(* keeps every slot it has, only a slot that holds a generator is resumed, *)
(* and a step that pops an event for an emptied slot panics without        *)
(* resuming anything.                                                      *)
C9_CompletedSlots ==
    [][/\ Len(processes') >= Len(processes)
       /\ \A i \in 1 .. Len(processes) :
            /\ processes[i] = "None" => processes'[i] = "None"
            /\ processes'[i] # processes[i]
                => /\ Stepped /\ last'.outcome = "complete"
                   /\ last'.event.process = i - 1
       /\ (Stepped /\ last'.outcome = "complete")
            => processes'[last'.event.process + 1] = "None"
       /\ (Stepped /\ last'.resumed)
            => /\ last'.event.process < Len(processes)
               /\ processes[last'.event.process + 1] = "Some"
       /\ (Dispatched /\ last'.event.process < Len(processes)
             /\ processes[last'.event.process + 1] = "None")
            => /\ panicked' = PanicCompleted
               /\ last'.outcome = "panic" /\ ~last'.resumed
               /\ UNCHANGED <<processes, processed_events, resources>>]_vars

(* C9 witness: a step has panicked on an event for a completed process     *)
(* while another process is still live.                                    *)
C9_Witness ==
    /\ panicked = PanicCompleted
    /\ last.op = "step" /\ ~last.resumed
    /\ processes[last.event.process + 1] = "None"
    /\ \E i \in 1 .. Len(processes) : processes[i] = "Some"

(* C10: a step appends to the trace log exactly the pair of the event it   *)
(* popped and the payload yielded when that payload's should_log() is      *)
(* true, and nothing otherwise (completion, should_log() false, panic on   *)
(* resume, empty queue); no other call changes the log, and the entries    *)
(* already there stay as they are.                                         *)
C10_TraceLog ==
    [][IF Stepped /\ last'.resumed /\ last'.outcome \in {"yield", "panic"}
          /\ should_log(last'.y)
       THEN /\ processed_events' = Append(processed_events, <<last'.event, last'.y>>)
            /\ last'.event \in heap_peeks(future_events)
       ELSE processed_events' = processed_events]_vars

(* C10 witness: a logged yield was followed by a completion and by a yield *)
(* that does not ask to be logged.                                         *)
C10_Witness ==
    /\ steps = 3
    /\ Len(processed_events) = 1
    /\ last.op = "step" /\ last.outcome = "yield" /\ ~should_log(last.y)
    /\ \E i \in 1 .. Len(processes) : processes[i] = "None"

(* C11 as claimed: a resource created with n = 0 is permanently            *)
(* unacquirable: whatever the processes yield, no request on it is ever    *)
(* granted.                                                                *)
C11_ZeroNeverGranted ==
    \A r \in ResourceIds : resource(r).allocated = 0 => granted[r] = 0

(* C11 as amended: creating a resource raises no fatal error, and for a    *)
(* resource created with n = 0, available stays 0, a Request(r) on it      *)
(* raises no fatal error, is appended to the waiters and is not            *)
(* re-enqueued into the priority queue, and a request on it is granted     *)
(* only by a completed Release(r) that finds it at the head of the         *)
(* waiters; so nothing is granted as long as no process yields Release(r). *)
C11_ZeroGrantedOnlyByRelease ==
    [][/\ Len(resources') > Len(resources) => panicked' = ""
       /\ \A r \in ResourceIds : resource(r).allocated = 0 =>
            /\ resources'[r + 1].allocated = 0
            /\ resources'[r + 1].available = 0
            /\ (YieldedKind("Request") /\ get_effect(last'.y).id = r)
                => /\ panicked' = ""
                   /\ future_events' = heap_remove(future_events, last'.event)
                   /\ resources' = [resources EXCEPT
                                      ![r + 1].queue = push_back(@, last'.event)]
                   /\ granted' = granted
            /\ granted'[r] # granted[r]
                => /\ YieldedKind("Release") /\ get_effect(last'.y).id = r
                   /\ Len(resource(r).queue) > 0
                   /\ granted'[r] = granted[r] + 1
                   /\ released'[r] = released[r] + 1
            /\ granted'[r] <= released'[r]]_vars

(* C11 witness: two processes have requested a resource of capacity 0 and  *)
(* both wait, nothing granted.                                             *)
C11_Witness ==
    /\ LastYielded("Request")
    /\ \E r \in ResourceIds :
        /\ get_effect(last.y).id = r
        /\ resource(r).allocated = 0
        /\ Len(resource(r).queue) = 2
        /\ resource(r).queue[1].process # resource(r).queue[2].process
        /\ granted[r] = 0

(* The times of the events whose dispatch made process p yield an effect   *)
(* of the given kind, read off the trace log.                              *)
LogTimes(p, kind) ==
    {processed_events[i][1].time : i \in
        {j \in 1 .. Len(processed_events) :
            /\ processed_events[j][1].process = p
            /\ get_effect(processed_events[j][2]).kind = kind}}

(* Two processes that each hold resource 0, of capacity 1, for a time.     *)
HolderPair ==
    /\ Len(generators) = 2
    /\ \A i \in 1 .. 2 : \E d \in HoldTimes : generators[i].program = Holder(0, d)
    /\ \A i \in 1 .. 2 : generators[i].scripted
    /\ Len(resources) = 1
    /\ resource(0).allocated = 1
HoldOf(p) == get_effect(generators[p + 1].program[2]).time

(* P1 requests at t1, P2 at t2 while P1 holds the unit: P2 is resumed as   *)
(* the holder at the time t1 + d1 of P1's Release, and once both are done  *)
(* the time is t1 + d1 + d2.                                               *)
C12_Scenario ==
    HolderPair =>
        \A t1 \in LogTimes(0, "Request"), t2 \in LogTimes(1, "Request") :
            (t1 < t2 /\ t2 < t1 + HoldOf(0)) =>
                /\ \A t \in LogTimes(0, "Release") : t = t1 + HoldOf(0)
                /\ \A t \in LogTimes(1, "TimeOut") : t = t1 + HoldOf(0)
                /\ (last = LastReturn(NoEvents) /\ Len(processed_events) = 6)
                    => time = t1 + HoldOf(0) + HoldOf(1)

(* C12: a Release(r) that finds a waiter takes the head of the waiters,    *)
(* rewrites its time to the current time and enqueues it, leaving          *)
(* available as it is; a dispatched event sets time() to its own time, so  *)
(* the waiter is dispatched at the time of that Release.  With capacity 1, *)
(* P1 doing Request, Timeout(d1), Release from t1 and P2 doing Request,    *)
(* Timeout(d2), Release from t2 with t1 < t2 < t1 + d1, P2 is granted at   *)
(* t1 + d1 and run(NoEvents) ends with time = t1 + d1 + d2 (7 and 10 for   *)
(* t1 = 0, t2 = 2, d1 = 7, d2 = 3).                                        *)
C12_HandOffTime ==
    [][/\ \A r \in ResourceIds :
            (YieldedKind("Release") /\ get_effect(last'.y).id = r
                /\ Len(resource(r).queue) > 0)
            => LET w == resource(r).queue[1] IN
               /\ panicked' = ""
               /\ resources' = [resources EXCEPT ![r + 1].queue = Tail(@)]
               /\ future_events' =
                    heap_push(heap_push(heap_remove(future_events, last'.event),
                                        Event(time', w.process, w.state)),
                              Event(time', last'.event.process, last'.y))
       /\ Dispatched => time' = last'.event.time
       /\ C12_Scenario']_vars

(* C12 witness: tests::resource has run to its end: P1 seeded at 0 holds   *)
(* for 7, P2 seeded at 2 holds for 3 and was granted at 7; run(NoEvents)   *)
(* has returned at time 10.                                                *)
C12_Witness ==
    /\ HolderPair
    /\ HoldOf(0) = 7 /\ HoldOf(1) = 3
    /\ LogTimes(0, "Request") = {0}
    /\ LogTimes(1, "Request") = {2}
    /\ LogTimes(1, "TimeOut") = {7}
    /\ last = LastReturn(NoEvents)
    /\ steps = 8
    /\ time = 10
    /\ resource(0).available = 1

(* A single process that yields three Timeouts, with one event seeded.     *)
TimerAlone ==
    /\ Len(generators) = 1
    /\ generators[1].scripted
    /\ \E d1 \in TickTimes, d2 \in TickTimes, d3 \in TickTimes :
        generators[1].program = Timer(d1, d2, d3)
TickOf(k) == get_effect(generators[1].program[k]).time
SumOfTicks(k) ==
    LET sum[i \in 0 .. 3] == IF i = 0 THEN 0 ELSE sum[i - 1] + TickOf(i)
    IN  sum[k]
(* The resumes of the process in slot i so far.                            *)
Resumes(i) == (generators[i].pc - 1) + (IF processes[i] = "None" THEN 1 ELSE 0)

(* C13: a step that dispatches an event e leaves time() = e.time; a        *)
(* Timeout(d) yielded at time t enqueues exactly one event, for the same   *)
(* process at t + d with the yielded payload; and for a single process     *)
(* seeded at time 0 that yields Timeout(d_k) on its k-th resume, time()    *)
(* after step k + 1 is d_1 + ... + d_k.                                    *)
C13_TimeoutAdvance ==
    [][/\ Dispatched => time' = last'.event.time
       /\ YieldedKind("TimeOut")
            => /\ panicked' = ""
               /\ future_events' =
                    heap_push(heap_remove(future_events, last'.event),
                              Event(last'.event.time
                                        + get_effect(last'.y).time,
                                    last'.event.process, last'.y))
               /\ resources' = resources
       /\ (TimerAlone /\ Stepped /\ last'.resumed
             /\ (Len(processed_events') > 0 =>
                    processed_events'[1][1].time = 0))
            => \A k \in 0 .. 3 :
                 (steps' = k + 1 /\ Resumes(1)' = k + 1) => time' = SumOfTicks(k)]_vars

(* C13 witness: tests::it_works: the process seeded at 0 has yielded       *)
(* Timeout(1), Timeout(2), Timeout(3) and the fourth step has left time()  *)
(* at 6.                                                                   *)
C13_Witness ==
    /\ TimerAlone
    /\ generators[1].program = Timer(1, 2, 3)
    /\ LogTimes(0, "TimeOut") = {0, 1, 3}
    /\ steps = 4
    /\ last.op = "step" /\ last.resumed
    /\ time = 6

(* C14: run(Time(T)) returns only with time() >= T, and returns the        *)
(* simulation as it is; it takes a step only while time() < T, and a       *)
(* dispatched event sets time() to its own time: so no step follows the    *)
(* dispatch of an event of time >= T, and of the events dispatched during  *)
(* the run only the last can have time >= T.                               *)
C14_TimeRun ==
    [][until.kind = "Time" =>
        /\ until' = Idle => (time >= until.n /\ UNCHANGED sim)
        /\ Stepped => time < until.n
        /\ Dispatched => time' = last'.event.time
        /\ (last.op = "step" /\ last.outcome # "empty"
              /\ last.event.time >= until.n)
            => ~Stepped]_vars

(* C14 witness: run(Time(T)), T at most 2, has returned at time 3: the     *)
(* process was dispatched at 0, yielded Timeout(3), and was dispatched     *)
(* once more at 3.                                                         *)
C14_Witness ==
    /\ last.op = "return" /\ last.outcome = "Time"
    /\ TimerAlone
    /\ LogTimes(0, "TimeOut") = {0, 3}
    /\ steps = 2
    /\ time = 3

(* C15: run(NoEvents) called on the simulation that a terminated           *)
(* run(NoEvents) returned finds the priority queue empty, performs no      *)
(* step and returns at once, leaving time, steps, the trace log, the       *)
(* resources and the process slots as they are.                            *)
C15_NoEventsIdempotent ==
    [][/\ (until = Idle /\ until' # Idle /\ rerun')
            => (future_events = EmptyBag /\ UNCHANGED <<sim, panicked>>)
       /\ (rerun /\ until # Idle)
            => (until' = Idle /\ UNCHANGED <<sim, panicked>>)]_vars

(* C15 witness: the second run(NoEvents) has returned, on a simulation     *)
(* that has taken steps, with a process still waiting for a resource.      *)
C15_Witness ==
    /\ rerun
    /\ last = LastReturn(NoEvents)
    /\ steps >= 2
    /\ Len(processed_events) >= 2
    /\ \E r \in ResourceIds : Len(resource(r).queue) > 0
    /\ \E i \in 1 .. Len(processes) : processes[i] = "Some"

(* C16: a step on an empty priority queue adds exactly one to steps and    *)
(* leaves time, the trace log, the process slots, the resources (available *)
(* and waiters) and the queue itself as they are, and raises no fatal      *)
(* error, also when some waiters queue is not empty.                       *)
C16_EmptyStep ==
    [][(Stepped /\ future_events = EmptyBag)
        => /\ steps' = steps + 1
           /\ last'.outcome = "empty"
           /\ UNCHANGED <<time, processed_events, processes, generators,
                          resources, future_events, panicked>>]_vars

(* C16 witness: a step has found the priority queue empty while a process  *)
(* waits for a resource.                                                   *)
C16_Witness ==
    /\ last.op = "step" /\ last.outcome = "empty"
    /\ future_events = EmptyBag
    /\ \E r \in ResourceIds : Len(resource(r).queue) > 0

(* C17: for every resource r, the number of grants of r (a Request granted *)
(* at once, or a waiter handed the unit by a Release) minus the number of  *)
(* completed Release(r) effects equals allocated - available.              *)
C17_GrantsMinusReleases ==
    \A r \in ResourceIds :
        granted[r] - released[r] = resource(r).allocated - resource(r).available

(* C17 witness: a unit was granted at once, a second request was queued,   *)
(* and a Release has handed the unit to the waiter: two grants, one        *)
(* release, no unit available.                                             *)
C17_Witness ==
    /\ LastYielded("Release")
    /\ \E r \in ResourceIds :
        /\ granted[r] = 2
        /\ released[r] = 1
        /\ resource(r).allocated = 1
        /\ resource(r).available = 0

(* C18 as claimed: when a process yields Request(r) with payload y and     *)
(* available = 0, the event appended to the tail of r's waiters is         *)
(* {time, e.process, y}: it carries the yielded payload, as the event      *)
(* enqueued by an immediate grant does.                                    *)
C18_WaiterCarriesYield ==
    [][\A r \in ResourceIds :
        (YieldedKind("Request") /\ get_effect(last'.y).id = r
            /\ resource(r).available = 0)
        => resources'[r + 1].queue =
              push_back(resource(r).queue,
                        Event(time', last'.event.process, last'.y))]_vars

(* P1 yields Event{d, P2} and then would yield Wait; P2 returns at once or *)
(* yields Wait, and nothing else targets P1 after its seed.                *)
QuietTarget ==
    /\ Len(generators) = 2
    /\ generators[1].scripted /\ generators[2].scripted
    /\ \E d \in TickTimes : generators[1].program = Scheduler(d, 1)
    /\ generators[2].program \in {<<>>, <<yield(Wait)>>}

(* C19: a yield of Event{d, target} at time t enqueues exactly one event,  *)
(* for target at t + d carrying the yielded payload, and none for the      *)
(* yielding process; so a process that yields it and then would yield      *)
(* Wait, seeded once and targeted by nothing else, is resumed once and     *)
(* never again: it never comes to yield Wait and its slot stays occupied.  *)
C19_ScheduleOnlyTarget ==
    [][/\ YieldedKind("Event")
            => /\ panicked' = ""
               /\ resources' = resources
               /\ future_events' =
                    heap_push(heap_remove(future_events, last'.event),
                              Event(last'.event.time + get_effect(last'.y).time,
                                    get_effect(last'.y).id, last'.y))
       /\ QuietTarget'
            => /\ generators'[1].pc <= 2
               /\ processes'[1] = "Some"
               /\ LogTimes(0, "Wait")' = {}]_vars

(* C19 witness: P1, seeded at 0, has yielded Event{3, P2}; P2 was resumed  *)
(* at time 3 with that payload and yielded Wait; run(NoEvents) has         *)
(* returned and P1 was not resumed again.                                  *)
C19_Witness ==
    /\ QuietTarget
    /\ generators[1].program = Scheduler(3, 1)
    /\ generators[1].pc = 2
    /\ last = LastReturn(NoEvents)
    /\ steps = 2
    /\ time = 3
    /\ Len(processed_events) = 2
    /\ processed_events[2][1] = Event(3, 1, yield(EventEffect(3, 1)))
    /\ processed_events[2][2] = yield(Wait)

(* The pending events: those in the priority queue and those in the        *)
(* resources' waiters queues.                                              *)
Waiting(res) ==
    LET sum[i \in 0 .. Len(res)] ==
            IF i = 0 THEN 0 ELSE sum[i - 1] + Len(res[i].queue)
    IN  sum[Len(res)]
Pending == heap_len(future_events) + Waiting(resources)

(* C20: no step increases the number of pending events; a step that        *)
(* returns leaves it unchanged when the queue was empty and when the       *)
(* process yielded TimeOut, Event, Request (granted or queued), Release    *)
(* (with or without a waiter) or Trace, and decreases it by exactly one    *)
(* when the process yielded Wait or returned; a call that is not a step    *)
(* changes it only by adding one event to the priority queue.              *)
C20_PendingEvents ==
    [][/\ Stepped => Pending' <= Pending
       /\ (Stepped /\ panicked' = "")
            => IF last'.outcome = "complete"
                  \/ (last'.outcome = "yield" /\ get_effect(last'.y).kind = "Wait")
               THEN Pending' = Pending - 1
               ELSE Pending' = Pending
       /\ (~Stepped /\ Pending' # Pending)
            => /\ Pending' = Pending + 1
               /\ heap_len(future_events') = heap_len(future_events) + 1
               /\ resources' = resources]_vars

(* C20 witness: a Release has handed its unit to a waiter while another    *)
(* request still waits: three events pending before and after.             *)
C20_Witness ==
    /\ LastYielded("Release")
    /\ heap_len(future_events) = 2
    /\ Waiting(resources) = 1
    /\ \E r \in ResourceIds : fifo[r].served = <<1>> /\ fifo[r].tickets = <<2>>

(* One resource of capacity n >= 1 and processes that each run Request,    *)
(* Timeout(d), Release on it and then return.                              *)
Holders ==
    /\ Len(generators) = 2
    /\ \A i \in 1 .. 2 :
        generators[i].scripted
        /\ \E d \in HoldTimes : generators[i].program = Holder(0, d)
    /\ Len(resources) = 1
    /\ resource(0).allocated >= 1
(* run(NoEvents) has been called on the fresh simulation, each process     *)
(* seeded exactly once.                                                    *)
HoldersRun ==
    /\ Holders
    /\ until = NoEvents
    /\ steps = 0
    /\ heap_len(future_events) = 2
    /\ \A p \in 0 .. 1 : \E e \in BagToSet(future_events) : e.process = p
(* run(NoEvents) has returned, with every slot empty, no waiter left,      *)
(* every queued request granted and every unit back.                       *)
HoldersDone ==
    /\ Len(resources) = 1
    /\ panicked = ""
    /\ until = Idle
    /\ last = LastReturn(NoEvents)
    /\ \A i \in 1 .. Len(processes) : processes[i] = "None"
    /\ Len(resource(0).queue) = 0
    /\ resource(0).available = resource(0).allocated
    /\ fifo[0].tickets = <<>>
    /\ Len(fifo[0].served) = fifo[0].issued

(* C21: with one resource of capacity n >= 1 and processes that are each   *)
(* seeded exactly once and run Request(r), Timeout(d), Release(r) and then *)
(* return, no step panics, and run(NoEvents) returns; on return every      *)
(* process slot is empty, every queued request has been granted, r's       *)
(* waiters queue is empty and available = allocated.                       *)
C21_HoldersRunToEnd ==
    /\ [](Holders => panicked = "")
    /\ []((Holders /\ last = LastReturn(NoEvents)
            /\ \A p \in 0 .. 1 : LogTimes(p, "Request") # {})
          => HoldersDone)
    /\ (HoldersRun ~> HoldersDone)

(* C21 witness: both processes were seeded at the same time, one request   *)
(* was queued and then granted, and run(NoEvents) has returned after the   *)
(* eight steps with both slots empty and the unit back.                    *)
C21_Witness ==
    /\ Holders
    /\ HoldersDone
    /\ steps = 8
    /\ fifo[0].served = <<1>>
    /\ LogTimes(0, "Request") = LogTimes(1, "Request")
    /\ resource(0).available = 1
=============================================================================
